---- MODULE Spec2Model ----
(***************************************************************************)
(* TeslaSmartChargeApp, Cloud Functions (functions/index.js).              *)
(*                                                                         *)
(* The model covers the Firestore documents energy_prices/NL and           *)
(* users/{userId}, the scheduled function fetchEnergyPrices, the Firestore *)
(* triggers calculateOptimalWindow and manageChargingLogic, the HTTP       *)
(* function telemetryWebhook and the helper sendTeslaChargeCommand.        *)
(*                                                                         *)
(* JavaScript numbers are IEEE-754 binary floating point.  The model keeps *)
(* the rounding rule of every arithmetic operation (round to nearest, ties *)
(* to even) and scales the significand from 53 bits down to Precision      *)
(* bits.  A number is represented by an integer count of quanta; Unit is   *)
(* the number of quanta of the value 1.0.                                  *)
(***************************************************************************)
EXTENDS Integers, Sequences, FiniteSets, TLC

(* ----------------------------- bounds ---------------------------------- *)

\* Significand bits of the modelled floating-point format.
Precision == 4

\* Largest number of points of a day-ahead feed, and hours of the model day.
MaxPoints == 4

\* Writes to Firestore that the environment (scheduler, vehicles, app) starts.
MaxWrites == 2

\* Largest number of points, and largest position, of the feeds of which
\* every arrangement of positions is taken.
MaxFeedLen == 2

(* ------------------------- JavaScript values --------------------------- *)

\* The value undefined of a document field that was never written.
Undefined == -1

\* !x for a numeric or undefined field x.
Falsy(x) == x = Undefined \/ x = 0

RECURSIVE Pow2(_)
Pow2(k) == IF k <= 0 THEN 1 ELSE 2 * Pow2(k - 1)

Unit == Pow2(Precision + 10)

Abs(n) == IF n < 0 THEN 0 - n ELSE n

\* Smallest exponent e >= 0 with a / (d * 2^e) < 2^Precision.
RECURSIVE ExponentOf(_, _, _)
ExponentOf(a, d, e) ==
  IF a < Pow2(Precision) * d * Pow2(e) THEN e ELSE ExponentOf(a, d, e + 1)

\* The floating-point number nearest to the exact quotient n / d (d > 0):
\* round to nearest, ties to even.
FRound(n, d) ==
  LET a  == Abs(n)
      e  == ExponentOf(a, d, 0)
      dd == d * Pow2(e)
      q  == a \div dd
      r  == a % dd
      up == (2 * r > dd) \/ (2 * r = dd /\ q % 2 = 1)
      m  == IF up THEN q + 1 ELSE q
  IN  (IF n < 0 THEN 0 - 1 ELSE 1) * m * Pow2(e)

\* a + b and a / d of two JavaScript numbers.
FAdd(a, b) == FRound(a + b, 1)

FDiv(a, d) == FRound(a, d)

(* ------------------------------ documents ------------------------------ *)

Users == {"u1", "u2"}

Hours == 0 .. (MaxPoints - 1)

VARIABLES
  users,      \* users/{userId}: the user documents
  priceDoc,   \* energy_prices/NL
  fanouts,    \* invocations of calculateOptimalWindow in flight
  handlers,   \* invocations of manageChargingLogic in flight
  response,   \* HTTP status of the last telemetryWebhook request, 0 if none
  tally,      \* per user: what was written and what the handlers did
  writes,     \* number of environment writes so far
  parsedData, \* the feed that the last run of fetchEnergyPrices received
  req,        \* req.body of the last telemetryWebhook request
  result,     \* what the last call of a callable returned or threw
  requests    \* telemetryWebhook requests between their query and update

vars ==
  <<users, priceDoc, fanouts, handlers, response, tally, writes, parsedData,
    req, result, requests>>

\* A field of string type that is undefined.
Absent == "undefined"

\* !s for a string s that is never undefined.
EmptyString(s) == s = ""

\* !s for a string or undefined field s.
FalsyString(s) == s = Absent \/ s = ""

NoSettings == [present |-> FALSE]

NoVehicle == [present |-> FALSE]

NoPriceDoc == [exists |-> FALSE]

(* --------------------------- fetchEnergyPrices ------------------------- *)

\* parseInt(point.position[0], 10) - 1
HourOf(point) == point.position - 1

\* parseFloat(point['price.amount'][0]) / 1000
PriceOf(point) == FDiv(point.amount * Unit, 1000)

\* pointTime = periodStartTime + hour hours, in hours since the epoch.
TimeOf(feed, point) == feed.start + HourOf(point)

\* Index of the last point of the feed that is stored under the hour h:
\* points.forEach assigns hourlyRates[hour] in feed order, a later point
\* overwrites an earlier one of the same position.
LastPointAt(feed, h) ==
  CHOOSE i \in 1 .. Len(feed.points) :
    /\ HourOf(feed.points[i]) = h
    /\ \A j \in (i + 1) .. Len(feed.points) : HourOf(feed.points[j]) # h

HourlyRatesOf(feed) ==
  [h \in {HourOf(feed.points[i]) : i \in 1 .. Len(feed.points)} |->
     [price |-> PriceOf(feed.points[LastPointAt(feed, h)]),
      time  |-> TimeOf(feed, feed.points[LastPointAt(feed, h)])]]

\* db.collection('energy_prices').doc('NL').set(priceData): the document is
\* replaced.  lastUpdated is the time of the run and is not modelled; it
\* makes every such write change the document.
PriceDocOf(feed) == [exists |-> TRUE, hourlyRates |-> HourlyRatesOf(feed)]

\* The answer of a run whose axios.get(apiUrl) is rejected.
AxiosError == [error |-> "axios.get"]

\* parsedData before the first run.
NoRun == [error |-> "no run"]

\* The conditions under which the try block throws before the write.
FeedFails(feed) ==
  \/ feed = AxiosError
  \/ ~feed.timeSeries
  \/ Len(feed.points) = 0
  \/ feed.start = Undefined

\* The trigger onDocumentUpdated('energy_prices/NL') fires for a write to a
\* document that existed before the write, not for the write creating it.
PriceTrigger(before, after, id) ==
  IF before.exists
  THEN {[id |-> id, pc |-> "start", hourlyRates |-> after.hourlyRates,
         batch |-> <<>>]}
  ELSE {}

\* The run with set(priceData, { merge: true }): the rates of the hours
\* that the feed does not have are kept.
fetchEnergyPricesMerge(feed) ==
  /\ writes < MaxWrites
  /\ writes' = writes + 1
  /\ parsedData' = feed
  /\ IF FeedFails(feed)
     THEN UNCHANGED <<priceDoc, fanouts>>
     ELSE /\ priceDoc' =
               IF priceDoc.exists
               THEN [exists |-> TRUE,
                     hourlyRates |->
                       [h \in DOMAIN HourlyRatesOf(feed)
                                \cup DOMAIN priceDoc.hourlyRates |->
                          IF h \in DOMAIN HourlyRatesOf(feed)
                          THEN HourlyRatesOf(feed)[h]
                          ELSE priceDoc.hourlyRates[h]]]
               ELSE PriceDocOf(feed)
          /\ fanouts' = fanouts \cup PriceTrigger(priceDoc, priceDoc', <<writes>>)
  /\ UNCHANGED <<users, handlers, response, tally, req, result, requests>>

\* The run with pointTime counted from the time of the run instead of the
\* period start.
fetchEnergyPricesStamped(feed) ==
  /\ writes < MaxWrites
  /\ writes' = writes + 1
  /\ parsedData' = feed
  /\ IF FeedFails(feed)
     THEN UNCHANGED <<priceDoc, fanouts>>
     ELSE /\ priceDoc' =
               [exists |-> TRUE,
                hourlyRates |->
                  [h \in DOMAIN HourlyRatesOf(feed) |->
                     [HourlyRatesOf(feed)[h] EXCEPT !.time = @ + writes]]]
          /\ fanouts' = fanouts \cup PriceTrigger(priceDoc, priceDoc', <<writes>>)
  /\ UNCHANGED <<users, handlers, response, tally, req, result, requests>>

fetchEnergyPrices(feed) ==
  /\ writes < MaxWrites
  /\ writes' = writes + 1
  /\ parsedData' = feed
  /\ IF FeedFails(feed)
     THEN UNCHANGED <<priceDoc, fanouts>>
     ELSE /\ priceDoc' = PriceDocOf(feed)
          /\ fanouts' = fanouts \cup PriceTrigger(priceDoc, priceDoc', <<writes>>)
  /\ UNCHANGED <<users, handlers, response, tally, req, result, requests>>

(* ------------------------- calculateOptimalWindow ---------------------- *)

RECURSIVE SortedKeys(_)
SortedKeys(S) ==
  IF S = {} THEN <<>>
  ELSE LET m == CHOOSE x \in S : \A y \in S : x <= y
       IN  <<m>> \o SortedKeys(S \ {m})

\* Object.values(hourlyRates).map(rate => rate.price): the values of the
\* integer keys in ascending key order.
PricesOf(hourlyRates) ==
  LET keys == SortedKeys(DOMAIN hourlyRates)
  IN  [i \in 1 .. Len(keys) |-> hourlyRates[keys[i]].price]

\* prices.slice(startHour, startHour + hoursNeeded).reduce((a, b) => a + b, 0)
RECURSIVE WindowSum(_, _, _)
WindowSum(prices, startHour, k) ==
  IF k = 0 THEN 0
  ELSE FAdd(WindowSum(prices, startHour, k - 1), prices[startHour + k])

AveragePrice(prices, startHour, hoursNeeded) ==
  FDiv(WindowSum(prices, startHour, hoursNeeded), hoursNeeded)

\* averagePrice < lowestAveragePrice, with lowestAveragePrice = Infinity as
\* long as bestStartHour = -1.
IsLower(averagePrice, best) ==
  best.bestStartHour = -1 \/ averagePrice < best.lowestAveragePrice

\* The sum of a window that goes on at the first hour after the last.
RECURSIVE WrapSum(_, _, _)
WrapSum(prices, startHour, k) ==
  IF k = 0 THEN 0
  ELSE FAdd(WrapSum(prices, startHour, k - 1),
            prices[((startHour + k - 1) % Len(prices)) + 1])

\* The loop over every start hour of the series, with windows that wrap.
RECURSIVE WindowLoopWrapping(_, _, _, _)
WindowLoopWrapping(prices, hoursNeeded, startHour, best) ==
  IF startHour < Len(prices) /\ hoursNeeded <= Len(prices)
  THEN LET averagePrice ==
             FDiv(WrapSum(prices, startHour, hoursNeeded), hoursNeeded)
       IN  WindowLoopWrapping(prices, hoursNeeded, startHour + 1,
             IF IsLower(averagePrice, best)
             THEN [bestStartHour |-> startHour,
                   lowestAveragePrice |-> averagePrice]
             ELSE best)
  ELSE best.bestStartHour

\* The for loop over startHour, from startHour on.
RECURSIVE WindowLoop(_, _, _, _)
WindowLoop(prices, hoursNeeded, startHour, best) ==
  IF startHour <= Len(prices) - hoursNeeded
  THEN LET averagePrice == AveragePrice(prices, startHour, hoursNeeded)
       IN  WindowLoop(prices, hoursNeeded, startHour + 1,
             IF IsLower(averagePrice, best)
             THEN [bestStartHour |-> startHour,
                   lowestAveragePrice |-> averagePrice]
             ELSE best)
  ELSE best.bestStartHour

BestStartHour(prices, hoursNeeded) ==
  WindowLoop(prices, hoursNeeded, 0,
             [bestStartHour |-> -1, lowestAveragePrice |-> 0])

\* The users of the snapshot that the forEach does not skip.
HasDuration(doc) ==
  doc.settings.present /\ ~Falsy(doc.settings.chargingDuration)

\* The batch without the test bestStartHour !== -1.
BatchOfUnchecked(snapshot, prices) ==
  [u \in {x \in Users : HasDuration(snapshot[x])} |->
     BestStartHour(prices, snapshot[u].settings.chargingDuration)]

\* The forEach giving up at the first user that has no settings or no
\* chargingDuration: the batch stays empty.
BatchOfAborting(snapshot, prices) ==
  IF \E u \in Users : snapshot[u].exists /\ ~HasDuration(snapshot[u])
  THEN <<>>
  ELSE BatchOfUnchecked(snapshot, prices)

\* The batch built from the users snapshot: user -> settings.optimalStartHour.
BatchOf(snapshot, prices) ==
  LET written == {u \in Users :
                    /\ HasDuration(snapshot[u])
                    /\ BestStartHour(prices,
                         snapshot[u].settings.chargingDuration) # -1}
  IN  [u \in written |->
         BestStartHour(prices, snapshot[u].settings.chargingDuration)]

NoData == [present |-> FALSE]

\* The write that an update event comes from.
Cause(op) == [op |-> op, data |-> NoData]

\* What a write to the user documents changes, counted per user when the
\* write is applied: the updates in which vehicle.isPluggedIn goes from false
\* to true and those in which chargeOverride goes from not true to true.
NoTally ==
  [plugEdges |-> 0, unplugs |-> 0, overrideAsserts |-> 0, detections |-> 0,
   dispatches |-> 0, overrideStarts |-> 0, priceMissing |-> 0,
   exchangeFailed |-> 0, exchanges |-> 0, posted |-> 0, unhandled |-> 0]

IsPlugEdge(before, after) ==
  /\ before.vehicle.present /\ after.vehicle.present
  /\ before.vehicle.isPluggedIn = FALSE
  /\ after.vehicle.isPluggedIn = TRUE

IsUnplug(before, after) ==
  /\ before.vehicle.present /\ after.vehicle.present
  /\ before.vehicle.isPluggedIn = TRUE
  /\ after.vehicle.isPluggedIn = FALSE

IsOverrideAssert(before, after) ==
  before.chargeOverride # TRUE /\ after.chargeOverride = TRUE

Tallied(before, after) ==
  [u \in Users |->
     [tally[u] EXCEPT
        !.plugEdges = @ + (IF IsPlugEdge(before[u], after[u]) THEN 1 ELSE 0),
        !.unplugs = @ + (IF IsUnplug(before[u], after[u]) THEN 1 ELSE 0),
        !.overrideAsserts =
           @ + (IF IsOverrideAssert(before[u], after[u]) THEN 1 ELSE 0)]]

\* The trigger onDocumentUpdated('users/{userId}'): one invocation of
\* manageChargingLogic, with the snapshots before and after the write, for
\* every user document that a write changes.  cause names the write.
UserTrigger(before, after, id, cause) ==
  {[id |-> id \o <<u>>, user |-> u, pc |-> "start", cause |-> cause,
    before |-> before[u], after |-> after[u],
    hour |-> Undefined, price |-> 0, level |-> Undefined,
    command |-> "NONE", outcome |-> "NONE"] :
     u \in {x \in Users : before[x] # after[x]}}

\* const prices = ...; const usersSnapshot = await db.collection('users').get();
\* usersSnapshot.forEach(...): the batch is built from the snapshot.
calculateOptimalWindowRead(f) ==
  /\ f \in fanouts
  /\ f.pc = "start"
  /\ fanouts' = (fanouts \ {f}) \cup
       {[f EXCEPT !.pc = "commit",
                  !.batch = BatchOf(users, PricesOf(f.hourlyRates))]}
  /\ UNCHANGED <<users, priceDoc, handlers, response, tally, writes, parsedData, req, result, requests>>

\* The update written as {settings: {optimalStartHour: bestStartHour}}:
\* the settings map is replaced.
CommittedSettingsMap(docs, batch) ==
  [u \in Users |->
     IF u \in DOMAIN batch
     THEN [docs[u] EXCEPT
             !.settings = [present |-> TRUE, chargingDuration |-> Undefined,
                           emergencyThreshold |-> Undefined,
                           targetBattery |-> Undefined,
                           optimalStartHour |-> batch[u]]]
     ELSE docs[u]]

\* batch.update(userRef, {'settings.optimalStartHour': bestStartHour}) of
\* every user of the batch, applied by batch.commit().
Committed(docs, batch) ==
  [u \in Users |->
     IF u \in DOMAIN batch
     THEN [docs[u] EXCEPT !.settings.optimalStartHour = batch[u]]
     ELSE docs[u]]

\* batch.commit() is rejected when a document of a batch.update no longer
\* exists; a rejected batch writes nothing.
CommitRejected(docs, batch) == \E u \in DOMAIN batch : ~docs[u].exists

calculateOptimalWindowCommit(f) ==
  /\ f \in fanouts
  /\ f.pc = "commit"
  /\ users' = IF CommitRejected(users, f.batch) THEN users
              ELSE Committed(users, f.batch)
  /\ handlers' = handlers \cup UserTrigger(users, users', f.id, Cause("calculateOptimalWindow"))
  /\ fanouts' = fanouts \ {f}
  /\ tally' = Tallied(users, users')
  /\ UNCHANGED <<priceDoc, response, writes, parsedData, req, result, requests>>

(* ---------------------------- telemetryWebhook ------------------------- *)

\* The fields of vehicleUpdate that the three if statements set: a field of
\* data is applied when its value is truthy.
VehicleUpdate(data) ==
  [isCharging  |-> ~FalsyString(data.charging_state),
   isPluggedIn |-> ~FalsyString(data.charge_port_latch),
   batteryLevel |-> ~Falsy(data.battery_level)]

\* The vehicle record replaced by the event: the fields absent from the
\* event are reset.
ReplaceVehicle(vehicle, data) ==
  [vehicle EXCEPT
     !.isCharging = data.charging_state = "Charging",
     !.isPluggedIn = data.charge_port_latch = "Engaged",
     !.batteryLevel = IF Falsy(data.battery_level) THEN 0
                      ELSE data.battery_level]

\* db.collection('users').doc(userId).update(vehicleUpdate): only the
\* fields of vehicleUpdate are written.
ApplyTelemetry(vehicle, data) ==
  LET set == VehicleUpdate(data)
  IN  [vehicle EXCEPT
         !.isCharging = IF set.isCharging
                        THEN data.charging_state = "Charging" ELSE @,
         !.isPluggedIn = IF set.isPluggedIn
                         THEN data.charge_port_latch = "Engaged" ELSE @,
         !.batteryLevel = IF set.batteryLevel THEN data.battery_level ELSE @]

\* No call of refreshVehicleData yet.
NoResult == [code |-> "none", token |-> Absent]

\* req.body before the first request.
NoRequest == [vin |-> Absent, data |-> NoData]

\* The query without the where clause.
UsersWithVehicle(vin) == {u \in Users : users[u].vehicle.present}

\* where('vehicle.vin', '==', vin).limit(1): the users with that VIN.
UsersWithVin(vin) ==
  {u \in Users : users[u].vehicle.present /\ users[u].vehicle.vin = vin}

\* rejected: a Firestore call of the request, the query or the update, is
\* rejected; the catch block answers.
telemetryWebhook(vin, data, rejected) ==
  /\ writes < MaxWrites
  /\ writes' = writes + 1
  /\ req' = [vin |-> vin, data |-> data]
  /\ IF FalsyString(vin) \/ ~data.present
     THEN /\ response' = 400
          /\ UNCHANGED <<users, handlers, tally>>
     ELSE IF rejected
     THEN /\ response' = 500
          /\ UNCHANGED <<users, handlers, tally>>
     ELSE IF UsersWithVin(vin) = {}
     THEN /\ response' = 200
          /\ UNCHANGED <<users, handlers, tally>>
     ELSE \E u \in UsersWithVin(vin) :
            /\ users' = [users EXCEPT
                           ![u].vehicle = ApplyTelemetry(@, data)]
            /\ handlers' = handlers \cup
                 UserTrigger(users, users', <<writes>>,
                             [op |-> "telemetryWebhook", data |-> data])
            /\ tally' = Tallied(users, users')
            /\ response' = 200
  /\ UNCHANGED <<priceDoc, fanouts, parsedData, result, requests>>

\* telemetryWebhook up to the answer of the query, for a request with vin
\* and data whose VIN a user has: userId is snapshot.docs[0].id.
telemetryWebhookQuery(vin, data) ==
  /\ writes < MaxWrites
  /\ ~FalsyString(vin) /\ data.present
  /\ writes' = writes + 1
  /\ req' = [vin |-> vin, data |-> data]
  /\ \E u \in UsersWithVin(vin) :
       requests' = requests \cup
         {[id |-> writes, vin |-> vin, data |-> data, userId |-> u]}
  /\ UNCHANGED <<users, priceDoc, fanouts, handlers, response, tally, parsedData, result>>

\* telemetryWebhook from the answer of the query on: the update of the
\* document userId with vehicleUpdate, rejected when the document has been
\* deleted, and the answer to the request.
telemetryWebhookUpdate(r) ==
  /\ r \in requests
  /\ requests' = requests \ {r}
  /\ IF ~users[r.userId].exists
     THEN /\ response' = 500
          /\ UNCHANGED <<users, handlers, tally>>
     ELSE /\ users' = [users EXCEPT
                         ![r.userId].vehicle = ApplyTelemetry(@, r.data)]
          /\ handlers' = handlers \cup
               UserTrigger(users, users', <<r.id>>,
                           [op |-> "telemetryWebhook", data |-> r.data])
          /\ tally' = Tallied(users, users')
          /\ response' = 200
  /\ UNCHANGED <<priceDoc, fanouts, writes, parsedData, req, result>>

(* ----------------------- writes of the application --------------------- *)

\* The app sets chargeOverride to true on the user's document.
setChargeOverride(u) ==
  /\ writes < MaxWrites
  /\ writes' = writes + 1
  /\ users' = [users EXCEPT ![u].chargeOverride = TRUE]
  /\ handlers' = handlers \cup
       UserTrigger(users, users', <<writes>>, Cause("setChargeOverride"))
  /\ tally' = Tallied(users, users')
  /\ UNCHANGED <<priceDoc, fanouts, response, parsedData, req, result, requests>>

\* The app changes settings.chargingDuration of a user who has settings.
setChargingDuration(u, d) ==
  /\ writes < MaxWrites
  /\ users[u].settings.present
  /\ writes' = writes + 1
  /\ users' = [users EXCEPT ![u].settings.chargingDuration = d]
  /\ handlers' = handlers \cup
       UserTrigger(users, users', <<writes>>, Cause("setChargingDuration"))
  /\ tally' = Tallied(users, users')
  /\ UNCHANGED <<priceDoc, fanouts, response, parsedData, req, result, requests>>

\* The uid whose document a callable was to use if it took it from the
\* first user of the collection.
FirstUserId(auth) == "u1"

\* const userId = request.auth.uid: the id of the document that the
\* callables read and update.
UserIdOf(auth) == auth

\* The callable exchangeAuthCodeForToken.  auth: the uid of request.auth,
\* Absent for a call without identity; code: request.data.code;
\* refreshToken: response.data.refresh_token, Absent when the exchange is
\* rejected or answers without a refresh token.  The refresh token is
\* stored on the caller's document.
exchangeAuthCodeForToken(auth, code, refreshToken) ==
  /\ writes < MaxWrites
  /\ writes' = writes + 1
  /\ IF auth = Absent
     THEN /\ result' = [code |-> "unauthenticated", token |-> Absent]
          /\ UNCHANGED <<users, handlers, tally>>
     ELSE IF FalsyString(code)
     THEN /\ result' = [code |-> "invalid-argument", token |-> Absent]
          /\ UNCHANGED <<users, handlers, tally>>
     ELSE IF FalsyString(refreshToken) \/ ~users[UserIdOf(auth)].exists
     THEN /\ result' = [code |-> "internal", token |-> Absent]
          /\ UNCHANGED <<users, handlers, tally>>
     ELSE /\ users' = [users EXCEPT
                         ![UserIdOf(auth)].teslaRefreshToken = refreshToken]
          /\ handlers' = handlers \cup
               UserTrigger(users, users', <<writes>>,
                           Cause("exchangeAuthCodeForToken"))
          /\ tally' = Tallied(users, users')
          /\ result' = [code |-> "ok", token |-> Absent]
  /\ UNCHANGED <<priceDoc, fanouts, response, parsedData, req, requests>>

\* A user document that has been deleted: the snapshot of the collection
\* and the queries do not have it.
DeletedDoc ==
  [settings |-> NoSettings, vehicle |-> NoVehicle,
   teslaRefreshToken |-> Absent, chargeOverride |-> FALSE, exists |-> FALSE]

\* The document of user u is deleted, by the app or in the console.  The
\* update trigger of users/{userId} does not fire for a deletion.
deleteUser(u) ==
  /\ writes < MaxWrites
  /\ users[u].exists
  /\ writes' = writes + 1
  /\ users' = [users EXCEPT ![u] = DeletedDoc]
  /\ UNCHANGED <<priceDoc, fanouts, handlers, response, tally, parsedData, req, result, requests>>

(* --------------------------- refreshVehicleData ------------------------ *)

\* The error that the try block of refreshVehicleData throws, "none" if it
\* runs to its return.  fetched: getInitialVehicleData and the update of
\* the document are answered.
ThrownInTry(doc, fetched) ==
  IF ~doc.exists THEN "not-found"
  ELSE IF \/ FalsyString(doc.teslaRefreshToken)
          \/ doc.teslaRefreshToken = "NEEDS_TO_BE_SET_LATER"
  THEN "failed-precondition"
  ELSE IF ~fetched THEN "Error"
  ELSE "none"

\* catch (error) { throw new HttpsError("internal", ...) }: the code that
\* the caller receives for an error thrown in the try block.
Rethrown(error) == "internal"

\* update({"vehicle.vin": ..., "vehicle.batteryLevel": ...,
\* "vehicle.isPluggedIn": ...}): the three fields are written, the others
\* are kept.
RefreshedVehicle(vehicle, latest) ==
  IF vehicle.present
  THEN [vehicle EXCEPT !.vin = latest.vin,
                       !.batteryLevel = latest.batteryLevel,
                       !.isPluggedIn = latest.isPluggedIn]
  ELSE [present |-> TRUE, vin |-> latest.vin, isCharging |-> Absent,
        isPluggedIn |-> latest.isPluggedIn,
        batteryLevel |-> latest.batteryLevel]

\* The callable refreshVehicleData.  auth: the uid of request.auth, Absent
\* for a call without identity; latest: the answer of getInitialVehicleData.
refreshVehicleData(auth, fetched, latest) ==
  /\ writes < MaxWrites
  /\ writes' = writes + 1
  /\ IF auth = Absent
     THEN /\ result' = [code |-> "unauthenticated", token |-> Absent]
          /\ UNCHANGED <<users, handlers, tally>>
     ELSE LET userId == UserIdOf(auth)
              error == ThrownInTry(users[userId], fetched)
              \* the refresh token handed to getInitialVehicleData
              token == IF error \in {"not-found", "failed-precondition"}
                       THEN Absent ELSE users[userId].teslaRefreshToken
          IN  IF error # "none"
              THEN /\ result' = [code |-> Rethrown(error), token |-> token]
                   /\ UNCHANGED <<users, handlers, tally>>
              ELSE /\ users' = [users EXCEPT
                                  ![userId].vehicle =
                                     RefreshedVehicle(@, latest)]
                   /\ handlers' = handlers \cup
                        UserTrigger(users, users', <<writes>>,
                                    Cause("refreshVehicleData"))
                   /\ tally' = Tallied(users, users')
                   /\ result' = [code |-> "ok", token |-> token]
  /\ UNCHANGED <<priceDoc, fanouts, response, parsedData, req, requests>>

(* --------------------------- manageChargingLogic ----------------------- *)

\* a < b of JavaScript for numbers that may be undefined: a comparison
\* with undefined is false.
JsLess(a, b) == a # Undefined /\ b # Undefined /\ a < b

\* The window test with an unset optimalStartHour read as 0.
InWindowUnsetAsZero(currentHour, optimalStartHour, chargingDuration) ==
  LET start == IF optimalStartHour = Undefined THEN 0 ELSE optimalStartHour
  IN  /\ currentHour >= start
      /\ chargingDuration # Undefined
      /\ currentHour < start + chargingDuration

\* currentHour >= optimalStartHour &&
\* currentHour < optimalStartHour + settings.chargingDuration
InWindow(currentHour, optimalStartHour, chargingDuration) ==
  /\ optimalStartHour # Undefined
  /\ currentHour >= optimalStartHour
  /\ chargingDuration # Undefined
  /\ currentHour < optimalStartHour + chargingDuration

\* The decision with the window closed at its upper end.
DecisionWindowClosed(vehicle, settings, currentPrice, currentHour) ==
  IF JsLess(vehicle.batteryLevel, settings.emergencyThreshold) THEN "START"
  ELSE IF currentPrice < 0 THEN "START"
  ELSE IF /\ InWindow(currentHour, settings.optimalStartHour,
                      settings.chargingDuration + 1)
          /\ JsLess(vehicle.batteryLevel, settings.targetBattery)
       THEN "START"
  ELSE "STOP"

\* The decision with the emergency rule applied inside the window only.
DecisionEmergencyInWindow(vehicle, settings, currentPrice, currentHour) ==
  IF currentPrice < 0 THEN "START"
  ELSE IF /\ InWindow(currentHour, settings.optimalStartHour,
                      settings.chargingDuration)
          /\ \/ JsLess(vehicle.batteryLevel, settings.targetBattery)
             \/ JsLess(vehicle.batteryLevel, settings.emergencyThreshold)
       THEN "START"
  ELSE "STOP"

\* The decision with the bonus rule limited to a battery below the target.
DecisionBonusBelowTarget(vehicle, settings, currentPrice, currentHour) ==
  IF JsLess(vehicle.batteryLevel, settings.emergencyThreshold) THEN "START"
  ELSE IF /\ currentPrice < 0
          /\ JsLess(vehicle.batteryLevel, settings.targetBattery)
       THEN "START"
  ELSE IF /\ InWindow(currentHour, settings.optimalStartHour,
                      settings.chargingDuration)
          /\ JsLess(vehicle.batteryLevel, settings.targetBattery)
       THEN "START"
  ELSE "STOP"

\* The decision logic of a plug-in transition, from the vehicle and the
\* settings of afterData, the price of the current hour and the hour.
Decision(vehicle, settings, currentPrice, currentHour) ==
  IF JsLess(vehicle.batteryLevel, settings.emergencyThreshold) THEN "START"
  ELSE IF currentPrice < 0 THEN "START"
  ELSE IF /\ InWindow(currentHour, settings.optimalStartHour,
                      settings.chargingDuration)
          /\ JsLess(vehicle.batteryLevel, settings.targetBattery)
       THEN "START"
  ELSE "STOP"

\* The override test without the comparison with the snapshot before.
OverrideSet(h) == h.after.chargeOverride = TRUE

\* afterData.chargeOverride === true && beforeData.chargeOverride !== true
OverrideAsserted(h) ==
  h.after.chargeOverride = TRUE /\ h.before.chargeOverride # TRUE

\* The plug-in test without the comparison with the snapshot before.
PluggedInNow(h) == h.after.vehicle.isPluggedIn = TRUE

\* beforeData.vehicle.isPluggedIn === false &&
\* afterData.vehicle.isPluggedIn === true, for documents with a vehicle.
PluggedIn(h) ==
  h.before.vehicle.isPluggedIn = FALSE /\ h.after.vehicle.isPluggedIn = TRUE

\* The evaluation of the plug-in condition throws a TypeError when a
\* snapshot it reads has no vehicle; && does not read afterData when the
\* left operand is false.
PlugCheckThrows(h) ==
  \/ ~h.before.vehicle.present
  \/ (h.before.vehicle.isPluggedIn = FALSE /\ ~h.after.vehicle.present)

\* The override branch deciding by the battery level.
OverrideCommandByLevel(h) ==
  IF h.after.settings.present
     /\ ~JsLess(h.after.vehicle.batteryLevel, h.after.settings.targetBattery)
  THEN "STOP" ELSE "START"

\* The command of sendTeslaChargeCommand(..., 'START') in the override branch.
OverrideCommand(h) == "START"

Step(h, pc) == (handlers \ {h}) \cup {[h EXCEPT !.pc = pc]}

Count(u, field) == [tally EXCEPT ![u][field] = @ + 1]

\* The handler up to its first await: the override test, the plug-in test
\* and the destructuring of afterData.
manageChargingLogic(h) ==
  /\ h \in handlers
  /\ h.pc = "start"
  /\ IF OverrideAsserted(h)
     THEN IF ~h.after.vehicle.present
          THEN \* afterData.vehicle.vin throws inside the try block
               /\ handlers' = (handlers \ {h}) \cup
                    {[h EXCEPT !.pc = "clear", !.outcome = "TypeError"]}
               /\ UNCHANGED tally
          ELSE /\ handlers' = (handlers \ {h}) \cup
                    {[h EXCEPT !.pc = "overrideToken",
                               !.command = OverrideCommand(h)]}
               /\ tally' = [tally EXCEPT
                              ![h.user].dispatches = @ + 1,
                              ![h.user].overrideStarts = @ + 1]
     ELSE IF PlugCheckThrows(h)
     THEN \* the TypeError is thrown outside every try block
          /\ handlers' = handlers \ {h}
          /\ tally' = Count(h.user, "unhandled")
     ELSE IF PluggedIn(h)
     THEN IF ~h.after.settings.present
          THEN \* const { optimalStartHour, ... } = settings throws
               /\ handlers' = handlers \ {h}
               /\ tally' = [tally EXCEPT ![h.user].detections = @ + 1,
                                         ![h.user].unhandled = @ + 1]
          ELSE /\ handlers' = Step(h, "prices")
               /\ tally' = Count(h.user, "detections")
     ELSE /\ handlers' = handlers \ {h}
          /\ UNCHANGED tally
  /\ UNCHANGED <<users, priceDoc, fanouts, response, writes, parsedData, req, result, requests>>

\* The vehicle taken from the snapshot before the update.
VehicleBefore(h) == h.before.vehicle

\* const { settings, vehicle, teslaRefreshToken } = afterData: the vehicle
\* state that the decision of an invocation is computed from.
VehicleOf(h) == h.after.vehicle

\* The plug-in branch sending STOP when it finds no price.
decideOnPlugInStopsWithoutPrice(h, currentHour) ==
  /\ h \in handlers
  /\ h.pc = "prices"
  /\ LET known == /\ priceDoc.exists
                  /\ currentHour \in DOMAIN priceDoc.hourlyRates
         currentPrice == IF known THEN priceDoc.hourlyRates[currentHour].price
                         ELSE 0
     IN  /\ handlers' = (handlers \ {h}) \cup
               {[h EXCEPT
                   !.pc = "plugToken",
                   !.hour = currentHour,
                   !.price = currentPrice,
                   !.level = VehicleOf(h).batteryLevel,
                   !.command =
                      IF known
                      THEN Decision(VehicleOf(h), h.after.settings,
                                    currentPrice, currentHour)
                      ELSE "STOP"]}
         /\ tally' = Count(h.user, "dispatches")
  /\ UNCHANGED <<users, priceDoc, fanouts, response, writes, parsedData, req, result, requests>>

\* The try block of the plug-in branch: the read of energy_prices/NL, the
\* decision and the call of sendTeslaChargeCommand.
decideOnPlugIn(h, currentHour) ==
  /\ h \in handlers
  /\ h.pc = "prices"
  /\ IF ~priceDoc.exists \/ currentHour \notin DOMAIN priceDoc.hourlyRates
     THEN \* 'Energy prices not found.' or prices[currentHour] is undefined
          /\ handlers' = handlers \ {h}
          /\ tally' = Count(h.user, "priceMissing")
     ELSE /\ handlers' = (handlers \ {h}) \cup
            {[h EXCEPT
                !.pc = "plugToken",
                !.hour = currentHour,
                !.price = priceDoc.hourlyRates[currentHour].price,
                !.level = VehicleOf(h).batteryLevel,
                !.command =
                   Decision(VehicleOf(h), h.after.settings,
                            priceDoc.hourlyRates[currentHour].price,
                            currentHour)]}
          /\ tally' = Count(h.user, "dispatches")
  /\ UNCHANGED <<users, priceDoc, fanouts, response, writes, parsedData, req, result, requests>>

\* const action = command === 'START' ? 'charge_start' : 'charge_stop'
ActionOf(command) == IF command = "START" THEN "charge_start" ELSE "charge_stop"

\* sendTeslaChargeCommand from the answer of getTeslaAccessToken on: the
\* exchange succeeds (exchanged) and the action is logged, or it is rejected
\* and the error is caught and logged.  The function returns normally in
\* both cases.
\* The requests that sendTeslaChargeCommand sends to the command endpoint
\* for an action: the axios.post is commented out, the action is logged.
CommandRequests(action) == 0

\* The dispatch with the access token of the first exchange kept for the
\* dispatches that follow.
sendTeslaChargeCommandCached(h, exchanged) ==
  /\ h \in handlers
  /\ h.pc \in {"overrideToken", "plugToken"}
  /\ LET cached == tally[h.user].exchanges > 0
         outcome == IF exchanged \/ cached THEN ActionOf(h.command)
                    ELSE "ExchangeFailed"
     IN  /\ handlers' =
              IF h.pc = "overrideToken"
              THEN (handlers \ {h}) \cup
                     {[h EXCEPT !.pc = "clear", !.outcome = outcome]}
              ELSE handlers \ {h}
         /\ tally' =
              [tally EXCEPT
                 ![h.user].exchanges = @ + (IF cached THEN 0 ELSE 1),
                 ![h.user].exchangeFailed =
                    @ + (IF exchanged \/ cached THEN 0 ELSE 1)]
  /\ UNCHANGED <<users, priceDoc, fanouts, response, writes, parsedData, req, result, requests>>

sendTeslaChargeCommand(h, exchanged) ==
  /\ h \in handlers
  /\ h.pc \in {"overrideToken", "plugToken"}
  /\ LET outcome == IF exchanged THEN ActionOf(h.command)
                    ELSE "ExchangeFailed"
     IN  handlers' =
           IF h.pc = "overrideToken"
           THEN (handlers \ {h}) \cup
                  {[h EXCEPT !.pc = "clear", !.outcome = outcome]}
           ELSE handlers \ {h}
  /\ tally' =
       [tally EXCEPT
          ![h.user].exchanges = @ + 1,
          ![h.user].exchangeFailed = @ + (IF exchanged THEN 0 ELSE 1),
          ![h.user].posted =
             @ + (IF exchanged THEN CommandRequests(ActionOf(h.command))
                  ELSE 0)]
  /\ UNCHANGED <<users, priceDoc, fanouts, response, writes, parsedData, req, result, requests>>

\* Whether the catch block of the override branch runs: it runs for an
\* error thrown in its try block; sendTeslaChargeCommand catches its own
\* errors and resolves for every outcome.
CaughtByCaller(outcome) == outcome = "TypeError"

\* The flag written back only after a command was sent.
ClearsFlagOnSuccess(outcome) == outcome \in {"charge_start", "charge_stop"}

\* Whether the handler of an override assertion writes chargeOverride back:
\* after the call returned (try block) and after an error (catch block).
ClearsFlag(outcome) == TRUE

\* event.data.after.ref.update({ chargeOverride: false })
clearOverride(h) ==
  /\ h \in handlers
  /\ h.pc = "clear"
  /\ users' = IF ClearsFlag(h.outcome)
              THEN [users EXCEPT ![h.user].chargeOverride = FALSE]
              ELSE users
  /\ handlers' = (handlers \ {h}) \cup
       UserTrigger(users, users', h.id, Cause("manageChargingLogic"))
  /\ tally' = Tallied(users, users')
  /\ UNCHANGED <<priceDoc, fanouts, response, writes, parsedData, req, result, requests>>

(* ------------------------------ the system ----------------------------- *)

Vins == {"vin1", "vin2", "vin9"}

Telemetry(state, latch, level) ==
  [present |-> TRUE, charging_state |-> state, charge_port_latch |-> latch,
   battery_level |-> level]

\* Telemetry events of the vehicles: plugged in, unplugged, a battery level
\* below the emergency threshold, charging started.
Events ==
  {Telemetry(Absent, "Engaged", Undefined),
   Telemetry(Absent, "Disengaged", Undefined),
   Telemetry(Absent, Absent, 15),
   Telemetry("Charging", Absent, Undefined)}

Point(position, amount) == [position |-> position, amount |-> amount]

\* Day-ahead feeds of the scheduled runs: a full day, a day with a negative
\* price that ends early, and an answer without TimeSeries.
Feeds ==
  {[timeSeries |-> TRUE, start |-> 24,
    points |-> <<Point(1, 15), Point(2, 1), Point(3, 2), Point(4, 15)>>],
   [timeSeries |-> TRUE, start |-> 48,
    points |-> <<Point(1, -3), Point(2, 2)>>],
   [timeSeries |-> FALSE, start |-> 48, points |-> <<>>]}

(* --------------------- the cheapest window, all feeds ------------------ *)

\* Raw price amounts of the feed, in currency units per MWh.
RawAmounts == {-3, 1, 2, 15}

\* Feeds with N points at the positions 1..N, in order.
ContiguousFeeds ==
  UNION {{[timeSeries |-> TRUE, start |-> 0,
           points |-> [i \in 1 .. n |-> [position |-> i, amount |-> a[i]]]] :
            a \in [1 .. n -> RawAmounts]} : n \in 1 .. MaxPoints}

FullSettings(d) ==
  [present |-> TRUE, chargingDuration |-> d, emergencyThreshold |-> 20,
   targetBattery |-> 80, optimalStartHour |-> Undefined]

Vehicle(vin, plugged, level) ==
  [present |-> TRUE, vin |-> vin, isCharging |-> FALSE,
   isPluggedIn |-> plugged, batteryLevel |-> level]

UserDoc(settings, vehicle) ==
  [settings |-> settings, vehicle |-> vehicle,
   teslaRefreshToken |-> "refresh", chargeOverride |-> FALSE,
   exists |-> TRUE]

\* The series of a day with the same price at every hour.
FlatFeed ==
  [timeSeries |-> TRUE, start |-> 0,
   points |-> [i \in 1 .. MaxPoints |-> [position |-> i, amount |-> 2]]]

FlatDay == PriceDocOf(FlatFeed)

InitWindow ==
  /\ \E d \in 1 .. (MaxPoints + 1), optimalStartHour \in {Undefined, 1} :
       users = [u \in Users |->
                  IF u = "u1"
                  THEN UserDoc([FullSettings(d) EXCEPT
                                  !.optimalStartHour = optimalStartHour],
                               Vehicle("vin1", FALSE, 50))
                  ELSE UserDoc(NoSettings, Vehicle("vin2", FALSE, 50))]
  /\ priceDoc = FlatDay
  /\ fanouts = {}
  /\ handlers = {}
  /\ response = 0
  /\ parsedData = NoRun
  /\ req = NoRequest
  /\ result = NoResult
  /\ requests = {}
  /\ tally = [u \in Users |-> NoTally]
  /\ writes = MaxWrites - 1

NextWindow ==
  \/ \E feed \in ContiguousFeeds : fetchEnergyPrices(feed)
  \/ \E f \in fanouts : calculateOptimalWindowRead(f)
  \/ \E f \in fanouts : calculateOptimalWindowCommit(f)

SpecWindow == InitWindow /\ [][NextWindow]_vars

\* The exact sum of the stored prices of the window [s, s + d).
RECURSIVE ExactSum(_, _, _)
ExactSum(prices, s, k) ==
  IF k = 0 THEN 0 ELSE ExactSum(prices, s, k - 1) + prices[s + k]

\* s is the first start of a window of d hours with the least mean; the
\* means of two windows of the same length compare as their sums.
IsCheapestStart(prices, d, s) ==
  /\ s \in 0 .. (Len(prices) - d)
  /\ \A t \in 0 .. (Len(prices) - d) :
       /\ ExactSum(prices, s, d) <= ExactSum(prices, t, d)
       /\ (ExactSum(prices, s, d) = ExactSum(prices, t, d) => s <= t)

\* C1: for every series of N prices and every duration d in 1..N, the
\* start hour that calculateOptimalWindow writes for a user is the smallest
\* start in [0, N - d] whose window mean is minimal.
C1_CheapestStartWritten ==
  \A f \in fanouts :
    f.pc = "commit" =>
      \A u \in DOMAIN f.batch :
        LET prices == PricesOf(f.hourlyRates)
            d == users[u].settings.chargingDuration
        IN  (1 <= d /\ d <= Len(prices)) =>
              IsCheapestStart(prices, d, f.batch[u])

\* C12: when the chargingDuration of a user exceeds the number of entries
\* of the price series, the commit of calculateOptimalWindow writes nothing
\* for that user: the document, its optimalStartHour included, is as before.
C12_TooLongWritesNothing ==
  [][\A f \in fanouts :
       (f.pc = "commit" /\ f \notin fanouts') =>
         \A u \in Users :
           (/\ users[u].settings.present
            /\ users[u].settings.chargingDuration
                 > Cardinality(DOMAIN f.hourlyRates))
             => users'[u] = users[u]]_vars

\* The fan-out of a published series has committed for a user whose
\* duration exceeds the length of the series, and the start hour written
\* earlier is still there.
C12_Witness ==
  /\ parsedData # NoRun /\ ~FeedFails(parsedData)
  /\ priceDoc = PriceDocOf(parsedData)
  /\ fanouts = {}
  /\ users["u1"].settings.chargingDuration > Len(parsedData.points)
  /\ users["u1"].settings.optimalStartHour = 1

\* C36: the start hour s that calculateOptimalWindow writes for a user
\* whose chargingDuration it has read as d, on a series of N prices, lies
\* in 0 .. N - d: the window [s, s + d) ends at the last hour of the series
\* at the latest.  The batch has such a start for every user it names, and
\* the commit writes the start of the batch.
C36_WindowInsideSeries ==
  [][\A f \in fanouts :
       /\ calculateOptimalWindowRead(f)
            => \A g \in fanouts' \ fanouts : \A u \in DOMAIN g.batch :
                 /\ 0 <= g.batch[u]
                 /\ g.batch[u] <= Len(PricesOf(f.hourlyRates))
                                    - users[u].settings.chargingDuration
       /\ calculateOptimalWindowCommit(f)
            => \A u \in DOMAIN f.batch :
                 users'[u].settings.optimalStartHour = f.batch[u]]_vars

\* A window of two hours has been written at the last start that fits a
\* series of three prices.
C36_Witness ==
  /\ fanouts = {}
  /\ parsedData \in ContiguousFeeds
  /\ Len(parsedData.points) = 3
  /\ users["u1"].settings.chargingDuration = 2
  /\ users["u1"].settings.optimalStartHour = 1

(* ------------------- the price refresh, all feeds ---------------------- *)

\* The raw amount of the i-th point of a feed: points of one feed differ.
AmountAt(i) == IF i % 2 = 1 THEN 14 + i ELSE 0 - i

\* The sequences of at most MaxFeedLen positions in 1..MaxFeedLen, in every
\* order, with repetitions and gaps.
Positions ==
  UNION {[1 .. n -> 1 .. MaxFeedLen] : n \in 0 .. MaxFeedLen}

\* The answers of the price API: every arrangement of positions, with a
\* period start that parses or does not, an answer without TimeSeries and
\* a rejected request.
AllFeeds ==
  {[timeSeries |-> TRUE, start |-> start,
    points |-> [i \in 1 .. Len(positions) |->
                  Point(positions[i], AmountAt(i))]] :
     positions \in Positions, start \in {Undefined, 24}}
  \cup {[timeSeries |-> FALSE, start |-> 24, points |-> <<>>], AxiosError}

InitFeed ==
  /\ users = [u \in Users |->
                IF u = "u1"
                THEN UserDoc(FullSettings(1), Vehicle("vin1", FALSE, 50))
                ELSE UserDoc(NoSettings, Vehicle("vin2", FALSE, 50))]
  /\ priceDoc \in {NoPriceDoc, FlatDay}
  /\ fanouts = {}
  /\ handlers = {}
  /\ response = 0
  /\ parsedData = NoRun
  /\ req = NoRequest
  /\ result = NoResult
  /\ requests = {}
  /\ tally = [u \in Users |-> NoTally]
  /\ writes = MaxWrites - 2

NextFeed ==
  \/ \E feed \in AllFeeds : fetchEnergyPrices(feed)
  \/ \E f \in fanouts : calculateOptimalWindowRead(f)
  \/ \E f \in fanouts : calculateOptimalWindowCommit(f)

SpecFeed == InitFeed /\ [][NextFeed]_vars

\* The step is a run of fetchEnergyPrices on the feed parsedData'.
FetchStep == fetchEnergyPrices(parsedData')

\* The step is a run that publishes a series.
Refresh == FetchStep /\ ~FeedFails(parsedData')

\* The positions of the feed are not the range 1..N, each once, for the N
\* points of the feed.
NotContiguous(feed) ==
  \E i \in 1 .. Len(feed.points) :
    \/ feed.points[i].position \notin 1 .. Len(feed.points)
    \/ \E j \in 1 .. Len(feed.points) :
         j # i /\ feed.points[j].position = feed.points[i].position

\* The feed has no point, positions that are not contiguous, or a period
\* start that does not parse.
Malformed(feed) ==
  /\ feed # AxiosError
  /\ feed.timeSeries
  /\ \/ Len(feed.points) = 0
     \/ NotContiguous(feed)
     \/ feed.start = Undefined

\* C14: a run that publishes stores one hourly rate per point of the feed,
\* with hour = position - 1, price = raw price / 1000 and time = period
\* start + hour hours; the series has as many rates as the feed has points.
C14_OneRatePerPoint ==
  [][Refresh =>
       LET feed == parsedData'
           rates == priceDoc'.hourlyRates
       IN  /\ Cardinality(DOMAIN rates) = Len(feed.points)
           /\ \A i \in 1 .. Len(feed.points) :
                /\ HourOf(feed.points[i]) \in DOMAIN rates
                /\ rates[HourOf(feed.points[i])] =
                     [price |-> PriceOf(feed.points[i]),
                      time |-> TimeOf(feed, feed.points[i])]]_vars

\* C15: a run on a feed with no point, with positions that are not the
\* contiguous range 1..N, or with an unparsable period start publishes
\* nothing.
C15_MalformedRejected ==
  [][(FetchStep /\ Malformed(parsedData'))
       => UNCHANGED <<priceDoc, fanouts>>]_vars

\* C16: after a run that fails (rejected request, no TimeSeries, no points,
\* malformed feed) the stored series is the one stored before the run.
C16_FailedCycleKeepsSeries ==
  [][(FetchStep /\ (FeedFails(parsedData') \/ Malformed(parsedData')))
       => priceDoc' = priceDoc]_vars

\* C17: a run that publishes replaces the series: the stored series has
\* exactly the hours of the new feed, and every rate is a rate of the new
\* feed.  The series that an invocation of calculateOptimalWindow reads is
\* the series of one publication, whole, and does not change afterwards.
C17_ReplacedWholesale ==
  [][/\ Refresh =>
          LET feed == parsedData'
              rates == priceDoc'.hourlyRates
          IN  /\ DOMAIN rates =
                   {HourOf(feed.points[i]) : i \in 1 .. Len(feed.points)}
              /\ \A h \in DOMAIN rates :
                   \E i \in 1 .. Len(feed.points) :
                     /\ HourOf(feed.points[i]) = h
                     /\ rates[h] = [price |-> PriceOf(feed.points[i]),
                                    time |-> TimeOf(feed, feed.points[i])]
              /\ \A f \in fanouts' \ fanouts : f.hourlyRates = rates
     /\ \A f \in fanouts, g \in fanouts' :
          g.id = f.id => g.hourlyRates = f.hourlyRates]_vars

\* A day of one hour was published over the series of a full day: the
\* stored series has the hour 0 only, and the invocation of
\* calculateOptimalWindow of that publication holds the same series.
C17_Witness ==
  /\ parsedData \in AllFeeds
  /\ ~FeedFails(parsedData) /\ Len(parsedData.points) = 1
  /\ priceDoc.exists /\ DOMAIN priceDoc.hourlyRates = {0}
  /\ priceDoc.hourlyRates[0].time = 24
  /\ writes = MaxWrites - 1
  /\ \E f \in fanouts : f.hourlyRates = priceDoc.hourlyRates

\* C18: every stored series has one entry for each hour of the range that
\* starts at hour 0, without a gap, and the times of consecutive hours
\* differ by one hour.
C18_SeriesComplete ==
  priceDoc.exists =>
    LET rates == priceDoc.hourlyRates
    IN  /\ DOMAIN rates = 0 .. (Cardinality(DOMAIN rates) - 1)
        /\ \A h \in DOMAIN rates :
             (h + 1) \in DOMAIN rates => rates[h + 1].time = rates[h].time + 1

\* C19: a run on the feed that the run before it published stores the
\* same hourly rates: the same hours, prices and times.
C19_SameFeedSameRates ==
  [][(Refresh /\ parsedData' = parsedData)
       => priceDoc'.hourlyRates = priceDoc.hourlyRates]_vars

\* Two runs have published, the stored series is the series of the feed of
\* the last run, and the two invocations of calculateOptimalWindow hold
\* that same series.
C19_Witness ==
  /\ parsedData \in AllFeeds /\ ~FeedFails(parsedData)
  /\ priceDoc = PriceDocOf(parsedData)
  /\ writes = MaxWrites
  /\ \E f \in fanouts, g \in fanouts :
       /\ f.id # g.id
       /\ f.hourlyRates = priceDoc.hourlyRates
       /\ g.hourlyRates = priceDoc.hourlyRates

(* ------------------ the decision, all vehicle states ------------------- *)

\* A day with a negative, a zero and positive prices.
MixedFeed ==
  [timeSeries |-> TRUE, start |-> 0,
   points |-> [i \in 1 .. MaxPoints |->
                 [position |-> i,
                  amount |-> IF i = 1 THEN -3 ELSE IF i = 2 THEN 0 ELSE 2]]]

\* A day with a negative price at every hour.
NegativeFeed ==
  [timeSeries |-> TRUE, start |-> 0,
   points |-> [i \in 1 .. MaxPoints |-> [position |-> i, amount |-> -3]]]

\* A day whose series ends after two hours.
ShortFeed ==
  [timeSeries |-> TRUE, start |-> 0, points |-> <<Point(1, -3), Point(2, 2)>>]

Levels == {0, 15, 50, 80, 100}

InitDecision ==
  /\ \E emergencyThreshold \in {0, 20, 60}, targetBattery \in {50, 80, 100},
        optimalStartHour \in {Undefined} \cup Hours,
        chargingDuration \in 1 .. 2, batteryLevel \in Levels :
       users =
         [u \in Users |->
            IF u = "u1"
            THEN UserDoc([present |-> TRUE,
                          chargingDuration |-> chargingDuration,
                          emergencyThreshold |-> emergencyThreshold,
                          targetBattery |-> targetBattery,
                          optimalStartHour |-> optimalStartHour],
                         Vehicle("vin1", FALSE, batteryLevel))
            ELSE UserDoc(NoSettings, Vehicle("vin2", FALSE, 50))]
  /\ priceDoc \in {PriceDocOf(FlatFeed), PriceDocOf(MixedFeed),
                   PriceDocOf(NegativeFeed), PriceDocOf(ShortFeed),
                   NoPriceDoc}
  /\ fanouts = {}
  /\ handlers = {}
  /\ response = 0
  /\ parsedData = NoRun
  /\ req = NoRequest
  /\ result = NoResult
  /\ requests = {}
  /\ tally = [u \in Users |-> NoTally]
  /\ writes = MaxWrites - 1

NextDecision ==
  \/ telemetryWebhook("vin1", Telemetry(Absent, "Engaged", Undefined), FALSE)
  \/ setChargeOverride("u1")
  \/ \E h \in handlers : manageChargingLogic(h)
  \/ \E h \in handlers, currentHour \in Hours : decideOnPlugIn(h, currentHour)
  \/ \E h \in handlers, exchanged \in BOOLEAN :
       sendTeslaChargeCommand(h, exchanged)
  \/ \E h \in handlers : clearOverride(h)

SpecDecision == InitDecision /\ [][NextDecision]_vars

\* The handlers that have decided a command for a plug-in transition.
Decided == {h \in handlers : h.pc = "plugToken"}

\* The hour of the decision lies in [optimalStartHour, optimalStartHour +
\* chargingDuration) of the settings the handler read.
HourInWindow(h) ==
  /\ h.after.settings.optimalStartHour # Undefined
  /\ h.after.settings.optimalStartHour <= h.hour
  /\ h.hour < h.after.settings.optimalStartHour
                + h.after.settings.chargingDuration

BelowEmergency(h) ==
  h.after.vehicle.batteryLevel < h.after.settings.emergencyThreshold

BelowTarget(h) ==
  h.after.vehicle.batteryLevel < h.after.settings.targetBattery

\* C2: when chargeOverride is asserted, the command decided for the user
\* is START, whatever the battery level, the thresholds, the prices and the
\* optimal window are.
C2_OverrideDecidesStart ==
  \A h \in handlers :
    (IsOverrideAssert(h.before, h.after) /\ h.pc # "start")
      => /\ h.command \in {"START", "NONE"}
         /\ (h.after.vehicle.present => h.command = "START")

\* An override handler has decided START for a full battery at a time at
\* which the plug-in rules decide STOP at every hour.
C2_Witness ==
  \E h \in handlers :
    /\ IsOverrideAssert(h.before, h.after)
    /\ h.pc = "overrideToken"
    /\ h.command = "START"
    /\ h.after.vehicle.batteryLevel = 100
    /\ priceDoc = PriceDocOf(FlatFeed)

\* C3: on a plug-in transition without override the decision is START if
\* the battery is below the emergency threshold, or the current price is
\* negative, or the current hour is in the optimal window and the battery
\* is below the target; it is STOP in every other case.
C3_FirstMatchingRule ==
  \A h \in Decided :
    h.command =
      IF \/ BelowEmergency(h)
         \/ h.price < 0
         \/ (HourInWindow(h) /\ BelowTarget(h))
      THEN "START" ELSE "STOP"

\* A decision STOP for a battery between the emergency threshold and the
\* target, at a positive price, one hour after the end of the window.
C3_Witness ==
  \E h \in Decided :
    /\ h.command = "STOP"
    /\ ~BelowEmergency(h) /\ BelowTarget(h)
    /\ h.price > 0
    /\ h.after.settings.optimalStartHour # Undefined
    /\ h.hour = h.after.settings.optimalStartHour
                  + h.after.settings.chargingDuration

\* C4: on a plug-in transition with price data, a battery level below the
\* emergency threshold decides START, whatever the price, the hour, the
\* window and the target are.
C4_EmergencyStarts ==
  \A h \in Decided : BelowEmergency(h) => h.command = "START"

\* An emergency START at a positive price outside the window, with the
\* battery not below the target.
C4_Witness ==
  \E h \in Decided :
    /\ BelowEmergency(h) /\ ~BelowTarget(h)
    /\ h.price > 0
    /\ ~HourInWindow(h)
    /\ h.command = "START"

\* C5: on a plug-in transition, a negative price of the current hour
\* decides START, whatever the window and the hour are and also when the
\* battery has reached the target.
C5_BonusStarts ==
  \A h \in Decided : h.price < 0 => h.command = "START"

\* A bonus START outside the window with the battery at the target and not
\* below the emergency threshold.
C5_Witness ==
  \E h \in Decided :
    /\ h.price < 0
    /\ ~BelowEmergency(h) /\ ~BelowTarget(h)
    /\ ~HourInWindow(h)
    /\ h.command = "START"

\* C13: when the handler of a plug-in transition finds no price document,
\* or no rate for the current hour, the invocation ends there: no command
\* is dispatched, no credential exchange follows and no user document is
\* written.
C13_NoPriceNoDispatch ==
  [][\A h \in handlers, currentHour \in Hours :
       (/\ h.pc = "prices"
        /\ \/ ~priceDoc.exists
           \/ currentHour \notin DOMAIN priceDoc.hourlyRates
        /\ decideOnPlugIn(h, currentHour))
         => /\ users' = users
            /\ \A g \in handlers' : g.id # h.id
            /\ tally'[h.user].dispatches = tally[h.user].dispatches]_vars

\* The plug-in of u1 was detected while energy_prices/NL did not exist; the
\* invocation has ended without a dispatch and the document is as the
\* telemetry update left it.
C13_Witness ==
  /\ ~priceDoc.exists
  /\ tally["u1"].plugEdges = 1 /\ tally["u1"].detections = 1
  /\ tally["u1"].priceMissing = 1
  /\ tally["u1"].dispatches = 0
  /\ handlers = {}
  /\ users["u1"].vehicle.isPluggedIn

\* The same for a document that has no rate for the current hour.
C13_WitnessNoRate ==
  /\ priceDoc = PriceDocOf(ShortFeed)
  /\ tally["u1"].plugEdges = 1 /\ tally["u1"].detections = 1
  /\ tally["u1"].priceMissing = 1
  /\ tally["u1"].dispatches = 0
  /\ handlers = {}

\* C23: when the credential exchange of a dispatch is rejected, no request
\* is sent to the command endpoint and the caller of sendTeslaChargeCommand
\* sees the dispatch fail.
C23_ExchangeFailureObserved ==
  \A h \in handlers :
    (h.pc = "clear" /\ h.outcome = "ExchangeFailed")
      => /\ tally[h.user].posted = 0
         /\ CaughtByCaller(h.outcome)

\* C40: for a user whose optimalStartHour is unset the optimal-window rule
\* never matches: on a plug-in transition for which a price is found, at
\* every hour, a command is dispatched, START when the battery is below
\* the emergency threshold or the price is negative and STOP otherwise.
C40_UnsetWindowNeverMatches ==
  [][\A h \in handlers, currentHour \in Hours :
       (/\ decideOnPlugIn(h, currentHour)
        /\ h.after.settings.optimalStartHour = Undefined
        /\ priceDoc.exists /\ currentHour \in DOMAIN priceDoc.hourlyRates)
         => \E g \in handlers' \ handlers :
              /\ g.id = h.id /\ g.pc = "plugToken" /\ g.hour = currentHour
              /\ tally'[h.user].dispatches = tally[h.user].dispatches + 1
              /\ g.command =
                   IF \/ h.after.vehicle.batteryLevel
                          < h.after.settings.emergencyThreshold
                      \/ priceDoc.hourlyRates[currentHour].price < 0
                   THEN "START" ELSE "STOP"]_vars

\* A decision STOP at hour 0 for a user without start hour, whose battery
\* is between the emergency threshold and the target, at a positive price.
C40_Witness ==
  \E h \in Decided :
    /\ h.after.settings.optimalStartHour = Undefined
    /\ h.hour = 0 /\ h.price > 0
    /\ ~BelowEmergency(h) /\ BelowTarget(h)
    /\ h.command = "STOP"

\* A decision START through the bonus rule for a user without start hour.
C40_WitnessBonus ==
  \E h \in Decided :
    /\ h.after.settings.optimalStartHour = Undefined
    /\ h.price < 0 /\ ~BelowEmergency(h)
    /\ h.command = "START"

(* ------------------ one telemetry event, all payloads ------------------ *)

TelemetryData ==
  [present : {TRUE},
   charging_state : {Absent, "Charging", "Stopped"},
   charge_port_latch : {Absent, "Engaged", "Disengaged"},
   battery_level : {Undefined, 0, 15, 50, 90}]

InitTelemetry ==
  /\ \E isCharging \in BOOLEAN, isPluggedIn \in BOOLEAN,
        batteryLevel \in Levels :
       users =
         [u \in Users |->
            IF u = "u1"
            THEN UserDoc([FullSettings(2) EXCEPT !.optimalStartHour = 0],
                         [Vehicle("vin1", isPluggedIn, batteryLevel)
                            EXCEPT !.isCharging = isCharging])
            ELSE UserDoc(NoSettings, Vehicle("vin2", FALSE, 50))]
  /\ priceDoc = FlatDay
  /\ fanouts = {}
  /\ handlers = {}
  /\ response = 0
  /\ parsedData = NoRun
  /\ req = NoRequest
  /\ result = NoResult
  /\ requests = {}
  /\ tally = [u \in Users |-> NoTally]
  /\ writes = MaxWrites - 1

NextTelemetry ==
  \/ \E vin \in Vins \cup {"", Absent}, data \in TelemetryData \cup {NoData},
        rejected \in BOOLEAN :
       telemetryWebhook(vin, data, rejected)
  \/ \E h \in handlers : manageChargingLogic(h)
  \/ \E h \in handlers, currentHour \in Hours : decideOnPlugIn(h, currentHour)
  \/ \E h \in handlers, exchanged \in BOOLEAN :
       sendTeslaChargeCommand(h, exchanged)

SpecTelemetry == InitTelemetry /\ [][NextTelemetry]_vars

\* The update events that telemetry writes produced.
TelemetryUpdates == {h \in handlers : h.cause.op = "telemetryWebhook"}

\* C10: a telemetry update leaves every vehicle field unchanged whose
\* telemetry field is absent from the event; an update with battery_level
\* only leaves isCharging and isPluggedIn unchanged.
C10_AbsentFieldsKept ==
  \A h \in TelemetryUpdates :
    LET data == h.cause.data
    IN  /\ data.charging_state = Absent
             => h.after.vehicle.isCharging = h.before.vehicle.isCharging
        /\ data.charge_port_latch = Absent
             => h.after.vehicle.isPluggedIn = h.before.vehicle.isPluggedIn
        /\ data.battery_level = Undefined
             => h.after.vehicle.batteryLevel = h.before.vehicle.batteryLevel
        /\ h.after.vehicle.vin = h.before.vehicle.vin

\* An event with battery_level only has changed the battery level of a
\* vehicle that is plugged in and charging.
C10_Witness ==
  \E h \in TelemetryUpdates :
    /\ h.cause.data = Telemetry(Absent, Absent, 15)
    /\ h.before.vehicle.isCharging /\ h.before.vehicle.isPluggedIn
    /\ h.before.vehicle.batteryLevel = 50
    /\ users[h.user].vehicle =
         [h.before.vehicle EXCEPT !.batteryLevel = 15]

\* The users whose vehicle has the VIN of the last request.
Addressed ==
  {u \in Users : users[u].vehicle.present /\ users[u].vehicle.vin = req.vin}

\* C11: after a telemetry event of a known vehicle, every field that is
\* present in the event is applied to the stored vehicle, for every value
\* it carries, a battery level of 0 included.
C11_PresentFieldsApplied ==
  (response = 200 /\ req.data.present) =>
    \A u \in Addressed :
      /\ req.data.charging_state # Absent
           => users[u].vehicle.isCharging
                = (req.data.charging_state = "Charging")
      /\ req.data.charge_port_latch # Absent
           => users[u].vehicle.isPluggedIn
                = (req.data.charge_port_latch = "Engaged")
      /\ req.data.battery_level # Undefined
           => users[u].vehicle.batteryLevel = req.data.battery_level

\* C20: a telemetry request with a VIN and data whose VIN is the VIN of no
\* user is answered with 200, changes no user document and starts no
\* invocation of manageChargingLogic, so that no command is dispatched.
C20_UnknownVinAcknowledged ==
  [][(/\ telemetryWebhook(req'.vin, req'.data, FALSE)
      /\ ~FalsyString(req'.vin) /\ req'.data.present
      /\ \A u \in Users :
           ~(users[u].vehicle.present /\ users[u].vehicle.vin = req'.vin))
       => /\ response' = 200
          /\ users' = users
          /\ handlers' = handlers
          /\ tally' = tally]_vars

\* A plug-in event for the VIN of no user was answered with 200: no
\* vehicle is plugged in, nothing was counted and no handler runs.
C20_Witness ==
  /\ response = 200
  /\ req = [vin |-> "vin9", data |-> Telemetry(Absent, "Engaged", Undefined)]
  /\ \A u \in Users : users[u].vehicle.vin # "vin9"
  /\ \A u \in Users : ~users[u].vehicle.isPluggedIn
  /\ handlers = {}
  /\ tally = [u \in Users |-> NoTally]

\* C21: every telemetry request that carries a vin and a data object is
\* answered with the success status, also when the VIN is unknown, when
\* data has no recognised field and when a Firestore call is rejected.
C21_AlwaysAcknowledged ==
  (response # 0 /\ req.vin \notin {Absent, ""} /\ req.data.present)
    => response = 200

\* C22: a telemetry request without vin or without data is answered with
\* the client-error status 400, whether Firestore answers or not, and it
\* changes no user document and starts no invocation of
\* manageChargingLogic.
C22_MalformedRejected ==
  [][(/\ \E rejected \in BOOLEAN :
           telemetryWebhook(req'.vin, req'.data, rejected)
      /\ (req'.vin \in {Absent, ""} \/ ~req'.data.present))
       => /\ response' = 400
          /\ users' = users
          /\ handlers' = handlers
          /\ tally' = tally]_vars

\* A request with the VIN of u1 and without data was answered with 400, and
\* nothing was written or started.
C22_Witness ==
  /\ response = 400
  /\ req = [vin |-> "vin1", data |-> NoData]
  /\ handlers = {}
  /\ tally = [u \in Users |-> NoTally]

\* The same for a request with data and without vin.
C22_WitnessNoVin ==
  /\ response = 400
  /\ req = [vin |-> Absent, data |-> Telemetry(Absent, "Engaged", Undefined)]
  /\ \A u \in Users : ~users[u].vehicle.isPluggedIn
  /\ handlers = {}

(* --------------------------- the whole system -------------------------- *)

Init ==
  /\ \E plugged \in BOOLEAN, second \in {"noSettings", "noVehicle"} :
       /\ priceDoc = FlatDay
       /\ users =
            [u \in Users |->
               IF u = "u1"
               THEN UserDoc([FullSettings(2) EXCEPT !.optimalStartHour = 0],
                            Vehicle("vin1", plugged, 50))
               ELSE IF second = "noSettings"
               THEN UserDoc(NoSettings, Vehicle("vin2", FALSE, 50))
               ELSE UserDoc(FullSettings(1), NoVehicle)]
  /\ fanouts = {}
  /\ handlers = {}
  /\ response = 0
  /\ parsedData = NoRun
  /\ req = NoRequest
  /\ result = NoResult
  /\ requests = {}
  /\ tally = [u \in Users |-> NoTally]
  /\ writes = 0

Next ==
  \/ \E feed \in Feeds : fetchEnergyPrices(feed)
  \/ \E f \in fanouts : calculateOptimalWindowRead(f)
  \/ \E f \in fanouts : calculateOptimalWindowCommit(f)
  \/ \E vin \in Vins, data \in Events, rejected \in BOOLEAN :
       telemetryWebhook(vin, data, rejected)
  \/ \E u \in Users : setChargeOverride(u)
  \/ \E u \in Users, d \in 1 .. 2 : setChargingDuration(u, d)
  \/ \E u \in Users : exchangeAuthCodeForToken(u, "code", "refresh2")
  \/ \E h \in handlers : manageChargingLogic(h)
  \/ \E h \in handlers, currentHour \in Hours : decideOnPlugIn(h, currentHour)
  \/ \E h \in handlers, exchanged \in BOOLEAN :
       sendTeslaChargeCommand(h, exchanged)
  \/ \E h \in handlers : clearOverride(h)

Spec == Init /\ [][Next]_vars

\* The update events of user u that are waiting for their handler and in
\* which vehicle.isPluggedIn goes from false to true.
PendingPlugEdges(u) ==
  {h \in handlers :
     h.user = u /\ h.pc = "start" /\ IsPlugEdge(h.before, h.after)}

\* C6: a plug-in transition is detected for exactly the updates in which
\* isPluggedIn was false before and is true after: every such update is
\* detected once, by its own handler, and no other update is detected.
C6_DetectedIffPlugEdge ==
  \A u \in Users :
    tally[u].detections + Cardinality(PendingPlugEdges(u))
      = tally[u].plugEdges

\* The plug states true, false, true: one unplug, one plug-in, one
\* detection.
C6_Witness ==
  /\ tally["u1"].unplugs = 1
  /\ tally["u1"].plugEdges = 1
  /\ users["u1"].vehicle.isPluggedIn
  /\ tally["u1"].detections = 1

\* No invocation of user u is in flight.
Quiet(u) == fanouts = {} /\ \A h \in handlers : h.user # u

\* C7: the number of commands dispatched for a user is the number of
\* plug-in transitions for which price data was available plus the number
\* of override assertions.
C7_DispatchPerTrigger ==
  \A u \in Users :
    Quiet(u) =>
      tally[u].dispatches =
        (tally[u].plugEdges - tally[u].priceMissing)
          + tally[u].overrideAsserts

\* C8: when the handling of an override assertion completes, chargeOverride
\* of the user is false, whether the dispatch succeeded or failed.
C8_FlagClearedAfterOverride ==
  [][\A h \in handlers :
       (h.pc = "clear" /\ h \notin handlers')
         => users'[h.user].chargeOverride = FALSE]_vars

\* The handling of the only override assertion of u1 has completed after a
\* rejected credential exchange, and the flag is false.
C8_Witness ==
  /\ tally["u1"].overrideAsserts = 1
  /\ tally["u1"].dispatches = 1
  /\ tally["u1"].exchangeFailed = 1
  /\ \A h \in handlers : h.user # "u1"
  /\ users["u1"].chargeOverride = FALSE

\* C9: the START dispatches of the override branch never outnumber the
\* override assertions of the user: one assertion causes at most one, under
\* every interleaving of the handlers with the writes to the document.
C9_OneStartPerAssertion ==
  \A u \in Users : tally[u].overrideStarts <= tally[u].overrideAsserts

\* A telemetry update was written while the flag was true, its event is
\* still waiting, and the override handler has dispatched and cleared the
\* flag.
C9_Witness ==
  \E h \in handlers :
    /\ h.cause.op = "telemetryWebhook"
    /\ h.pc = "start"
    /\ h.before.chargeOverride /\ h.after.chargeOverride
    /\ users[h.user].chargeOverride = FALSE
    /\ tally[h.user].overrideAsserts = 1
    /\ tally[h.user].overrideStarts = 1

\* C39: the start s that calculateOptimalWindow computes for a duration d
\* denotes hours of the day: the prices averaged for s are the rates stored
\* under the hour keys s, s + 1, ..., s + d - 1 of the series, for every
\* stored series.
C39_StartIsHourOfDay ==
  [][\A f \in fanouts :
       calculateOptimalWindowRead(f)
         => \A g \in fanouts' \ fanouts : \A u \in DOMAIN g.batch :
              \A k \in 0 .. (users[u].settings.chargingDuration - 1) :
                /\ g.batch[u] + k \in DOMAIN f.hourlyRates
                /\ PricesOf(f.hourlyRates)[g.batch[u] + k + 1]
                     = f.hourlyRates[g.batch[u] + k].price]_vars

\* The users whose chargingDuration fits the stored series have the start
\* hour that calculateOptimalWindow computes for the stored series.
Recomputed ==
  \A u \in Users :
    (/\ users[u].settings.present
     /\ users[u].settings.chargingDuration
          \in 1 .. Len(PricesOf(priceDoc.hourlyRates)))
      => users[u].settings.optimalStartHour =
           BestStartHour(PricesOf(priceDoc.hourlyRates),
                         users[u].settings.chargingDuration)

\* C29: every change of the stored series, its first publication included,
\* is followed by a recomputation: when the last run has published a
\* series and no fan-out is pending, every user whose chargingDuration
\* fits the series has the start hour computed for the stored series.
C29_RecomputedAfterChange ==
  (/\ parsedData \in AllFeeds
   /\ ~FeedFails(parsedData)
   /\ fanouts = {})
    => Recomputed

(* ------------------- the fan-out over several users -------------------- *)

\* Settings in which chargingDuration has not been set.
UnsetDuration == [FullSettings(Undefined) EXCEPT !.optimalStartHour = 1]

InitFanout ==
  /\ \E second \in {NoSettings, UnsetDuration, FullSettings(2)} :
       users = [u \in Users |->
                  IF u = "u1"
                  THEN UserDoc(FullSettings(1), Vehicle("vin1", FALSE, 50))
                  ELSE UserDoc(second, Vehicle("vin2", FALSE, 50))]
  /\ priceDoc = FlatDay
  /\ fanouts = {}
  /\ handlers = {}
  /\ response = 0
  /\ parsedData = NoRun
  /\ req = NoRequest
  /\ result = NoResult
  /\ requests = {}
  /\ tally = [u \in Users |-> NoTally]
  /\ writes = MaxWrites - 2

NextFanout ==
  \/ \E feed \in AllFeeds : fetchEnergyPrices(feed)
  \/ \E f \in fanouts : calculateOptimalWindowRead(f)
  \/ \E f \in fanouts : calculateOptimalWindowCommit(f)
  \/ \E u \in Users : deleteUser(u)

SpecFanout == InitFanout /\ [][NextFanout]_vars

\* C27: a failure for one user of the fan-out does not keep the others
\* from being updated: when the batch is committed, every user of the
\* batch whose document exists has the optimalStartHour of the batch,
\* also if the document of another user of the batch has been deleted.
C27_FailureIsolated ==
  [][\A f \in fanouts :
       calculateOptimalWindowCommit(f)
         => \A u \in DOMAIN f.batch :
              users[u].exists
                => users'[u].settings.optimalStartHour = f.batch[u]]_vars

\* The fan-out skips the document: it has no settings, or settings without
\* chargingDuration.
Unset(doc) ==
  ~doc.settings.present \/ doc.settings.chargingDuration = Undefined

\* C28: the fan-out skips a user with no settings or with chargingDuration
\* unset and still processes the others: the batch built from the snapshot
\* has no write for such a user and has one for every user whose duration
\* fits the series, and the commit leaves the documents outside the batch
\* as they are.
C28_UnsetSkipped ==
  [][\A f \in fanouts :
       /\ calculateOptimalWindowRead(f)
            => \A g \in fanouts' \ fanouts :
                 \A u \in Users :
                   /\ Unset(users[u]) => u \notin DOMAIN g.batch
                   /\ (/\ ~Unset(users[u])
                       /\ users[u].settings.chargingDuration
                            \in 1 .. Len(PricesOf(f.hourlyRates)))
                        => u \in DOMAIN g.batch
       /\ calculateOptimalWindowCommit(f)
            => \A u \in Users \ DOMAIN f.batch : users'[u] = users[u]]_vars

\* A fan-out has committed the start hour of u1 while u2 has settings
\* without chargingDuration, which are as they were.
C28_Witness ==
  /\ fanouts = {}
  /\ parsedData \in AllFeeds /\ ~FeedFails(parsedData)
  /\ users["u1"].settings.optimalStartHour # Undefined
  /\ users["u2"].settings = UnsetDuration

\* As C28_Witness, for a user u2 that has no settings.
C28_WitnessNoSettings ==
  /\ fanouts = {}
  /\ parsedData \in AllFeeds /\ ~FeedFails(parsedData)
  /\ users["u1"].settings.optimalStartHour # Undefined
  /\ users["u2"].exists /\ ~users["u2"].settings.present

(* ------------------------- the refresh callable ------------------------ *)

\* Answers of getInitialVehicleData for the vehicle of u1.
LatestVehicleData ==
  [vin : {"vin1"}, batteryLevel : {15, 90}, isPluggedIn : BOOLEAN]

\* u1 has a document, with a refresh token, the placeholder or none; u2
\* has signed in and has no document.
InitRefresh ==
  /\ \E teslaRefreshToken \in {"refresh", "NEEDS_TO_BE_SET_LATER", Absent},
        isPluggedIn \in BOOLEAN :
       users =
         [u \in Users |->
            IF u = "u1"
            THEN [UserDoc([FullSettings(2) EXCEPT !.optimalStartHour = 0],
                          Vehicle("vin1", isPluggedIn, 50))
                    EXCEPT !.teslaRefreshToken = teslaRefreshToken]
            ELSE DeletedDoc]
  /\ priceDoc = FlatDay
  /\ fanouts = {}
  /\ handlers = {}
  /\ response = 0
  /\ parsedData = NoRun
  /\ req = NoRequest
  /\ result = NoResult
  /\ requests = {}
  /\ tally = [u \in Users |-> NoTally]
  /\ writes = MaxWrites - 2

NextRefresh ==
  \/ \E auth \in Users \cup {Absent}, fetched \in BOOLEAN :
       \E latest \in LatestVehicleData :
         refreshVehicleData(auth, fetched, latest)
  \/ \E h \in handlers : manageChargingLogic(h)
  \/ \E h \in handlers, currentHour \in Hours : decideOnPlugIn(h, currentHour)
  \/ \E h \in handlers, exchanged \in BOOLEAN :
       sendTeslaChargeCommand(h, exchanged)

SpecRefresh == InitRefresh /\ [][NextRefresh]_vars

\* The error category of a call, by its cause.
CategoryOf(auth, fetched) ==
  IF auth = Absent THEN "unauthenticated"
  ELSE IF ~users[auth].exists THEN "not-found"
  ELSE IF users[auth].teslaRefreshToken \in {Absent, "", "NEEDS_TO_BE_SET_LATER"}
  THEN "failed-precondition"
  ELSE IF ~fetched THEN "internal"
  ELSE "ok"

\* C30: refreshVehicleData reports a distinct error category for each
\* cause: unauthenticated for a call without identity, not-found when the
\* document of the caller does not exist, failed-precondition when no
\* refresh token is connected, internal for the other failures only.
C30_DistinctCategories ==
  [][\A auth \in Users \cup {Absent}, fetched \in BOOLEAN :
       \A latest \in LatestVehicleData :
         refreshVehicleData(auth, fetched, latest)
           => result'.code = CategoryOf(auth, fetched)]_vars

\* The invocations of user u that have called sendTeslaChargeCommand and
\* wait for the answer of the credential exchange.
AwaitingToken(u) ==
  {h \in handlers : h.user = u /\ h.pc \in {"overrideToken", "plugToken"}}

(* ------------------------ telemetry, fair handlers --------------------- *)

\* A step of an invocation of manageChargingLogic.
HandlerStep ==
  \/ \E h \in handlers : manageChargingLogic(h)
  \/ \E h \in handlers, currentHour \in Hours : decideOnPlugIn(h, currentHour)
  \/ \E h \in handlers, exchanged \in BOOLEAN :
       sendTeslaChargeCommand(h, exchanged)

\* Every invocation that the platform has started runs on.
FairTelemetry == SpecTelemetry /\ WF_vars(HandlerStep)

\* The vehicle of u is plugged in with a battery level below the emergency
\* threshold of u.
LowWhilePlugged(u) ==
  /\ users[u].settings.present /\ users[u].vehicle.present
  /\ users[u].vehicle.isPluggedIn = TRUE
  /\ users[u].vehicle.batteryLevel < users[u].settings.emergencyThreshold

\* An invocation for u has decided START and called sendTeslaChargeCommand.
StartDispatched(u) ==
  \E h \in handlers :
    h.user = u /\ h.command = "START"
      /\ h.pc \in {"plugToken", "overrideToken"}

\* C32: when telemetry with a battery level has been stored for a vehicle
\* and the vehicle is plugged in with a battery level below the emergency
\* threshold, a START command for it is eventually dispatched, also when the low level is reported after the
\* vehicle was plugged in.
C32_EmergencyEventuallyStarts ==
  \A u \in Users :
    (/\ response = 200 /\ req.data.present
     /\ req.data.battery_level # Undefined
     /\ LowWhilePlugged(u) /\ req.vin = users[u].vehicle.vin)
      ~> StartDispatched(u)

(* ------------------- decisions, fair local steps ----------------------- *)

\* The steps of an invocation that do not wait for the token endpoint: the
\* tests of the handler, the read of the price document and the write of
\* the flag.
LocalStep ==
  \/ \E h \in handlers : manageChargingLogic(h)
  \/ \E h \in handlers, currentHour \in Hours : decideOnPlugIn(h, currentHour)
  \/ \E h \in handlers : clearOverride(h)

\* The invocations run on; the answer of the token endpoint to
\* axios.post, which is called without a timeout, may never come.
FairDecision == SpecDecision /\ WF_vars(LocalStep)

\* C33: every dispatch eventually ends, also when the credential exchange
\* never answers, and every handling of an override eventually reaches the
\* write of the flag.
C33_DispatchEnds ==
  \A u \in Users :
    /\ (AwaitingToken(u) # {}) ~> (AwaitingToken(u) = {})
    /\ (\E h \in handlers : h.user = u /\ h.pc = "overrideToken")
         ~> (\E h \in handlers : h.user = u /\ h.pc = "clear")

(* ------------------------ callers and documents ------------------------ *)

\* u1 and u2 have documents with refresh tokens of their own; the token of
\* u2 may be missing.
InitCallers ==
  /\ \E teslaRefreshToken \in {"refreshB", Absent} :
       users =
         [u \in Users |->
            IF u = "u1"
            THEN UserDoc([FullSettings(2) EXCEPT !.optimalStartHour = 0],
                         Vehicle("vin1", FALSE, 50))
            ELSE [UserDoc(NoSettings, Vehicle("vin2", FALSE, 50))
                    EXCEPT !.teslaRefreshToken = teslaRefreshToken]]
  /\ priceDoc = FlatDay
  /\ fanouts = {}
  /\ handlers = {}
  /\ response = 0
  /\ parsedData = NoRun
  /\ req = NoRequest
  /\ result = NoResult
  /\ requests = {}
  /\ tally = [u \in Users |-> NoTally]
  /\ writes = MaxWrites - 2

NextCallers ==
  \/ \E auth \in Users \cup {Absent}, fetched \in BOOLEAN :
       \E latest \in LatestVehicleData :
         refreshVehicleData(auth, fetched, latest)
  \/ \E auth \in Users \cup {Absent}, code \in {"code", Absent} :
       \E refreshToken \in {"refresh2", Absent} :
         exchangeAuthCodeForToken(auth, code, refreshToken)
  \/ \E h \in handlers : manageChargingLogic(h)
  \/ \E h \in handlers, currentHour \in Hours : decideOnPlugIn(h, currentHour)
  \/ \E h \in handlers, exchanged \in BOOLEAN :
       sendTeslaChargeCommand(h, exchanged)

SpecCallers == InitCallers /\ [][NextCallers]_vars

\* The step is a call of one of the two callables by auth.
CalledBy(auth) ==
  \/ \E fetched \in BOOLEAN, latest \in LatestVehicleData :
       refreshVehicleData(auth, fetched, latest)
  \/ \E code \in {"code", Absent}, refreshToken \in {"refresh2", Absent} :
       exchangeAuthCodeForToken(auth, code, refreshToken)

C31_WitnessNoIdentity ==
  /\ result.code = "unauthenticated"
  /\ writes = MaxWrites - 1
  /\ handlers = {}
  /\ users["u1"].vehicle = Vehicle("vin1", FALSE, 50)

(* ------------- telemetry interleaved with the plug-in handler ---------- *)

\* Events of one vehicle: plugged in with a battery level below the
\* emergency threshold, a later level above the target, unplugged.
PlugEvents ==
  {Telemetry(Absent, "Engaged", 15),
   Telemetry(Absent, Absent, 90),
   Telemetry(Absent, "Disengaged", Undefined)}

InitPlug ==
  /\ \E isPluggedIn \in BOOLEAN, batteryLevel \in {15, 50} :
       users =
         [u \in Users |->
            IF u = "u1"
            THEN UserDoc([FullSettings(2) EXCEPT !.optimalStartHour = 0],
                         Vehicle("vin1", isPluggedIn, batteryLevel))
            ELSE UserDoc(NoSettings, Vehicle("vin2", FALSE, 50))]
  /\ priceDoc = FlatDay
  /\ fanouts = {}
  /\ handlers = {}
  /\ response = 0
  /\ parsedData = NoRun
  /\ req = NoRequest
  /\ result = NoResult
  /\ requests = {}
  /\ tally = [u \in Users |-> NoTally]
  /\ writes = MaxWrites - 2

NextPlug ==
  \/ \E data \in PlugEvents : telemetryWebhook("vin1", data, FALSE)
  \/ \E h \in handlers : manageChargingLogic(h)
  \/ \E h \in handlers, currentHour \in Hours : decideOnPlugIn(h, currentHour)
  \/ \E h \in handlers, exchanged \in BOOLEAN :
       sendTeslaChargeCommand(h, exchanged)

SpecPlug == InitPlug /\ [][NextPlug]_vars

\* The invocation of the next state that continues invocation h.
Continued(h) == {x \in handlers' : x.id = h.id /\ x.user = h.user}

\* C26: the decision for a plug-in transition is computed from the vehicle
\* state of the snapshot in which isPluggedIn became true, never from an
\* older one: an invocation starts with the documents before and after the
\* write that triggers it, keeps them whatever is written while it runs,
\* and decides from the battery level of the document after that write.
C26_DecisionFromTriggeringSnapshot ==
  [][(\A g \in handlers' \ handlers :
        g.pc = "start"
          => (g.before = users[g.user] /\ g.after = users'[g.user]))
     /\ (\A h \in handlers : \A c \in Continued(h) :
           c.before = h.before /\ c.after = h.after)
     /\ (\A d \in handlers' \ handlers :
           d.pc = "plugToken"
             => (/\ IsPlugEdge(d.before, d.after)
                 /\ d.level = d.after.vehicle.batteryLevel
                 /\ d.command =
                      IF \/ d.level < d.after.settings.emergencyThreshold
                         \/ d.price < 0
                         \/ (HourInWindow(d)
                               /\ d.level < d.after.settings.targetBattery)
                      THEN "START" ELSE "STOP"))]_vars

\* A decision START from the level 15 of the plug-in update, for a vehicle
\* that was at 50 before it and that a later update has put at 90.
C26_Witness ==
  \E h \in Decided :
    /\ h.before.vehicle.batteryLevel = 50
    /\ h.level = 15
    /\ users[h.user].vehicle.batteryLevel = 90
    /\ h.command = "START"
    /\ h.hour = 3

(* ------------------ telemetry requests of two vehicles ----------------- *)

InitRequests ==
  /\ \E shared \in BOOLEAN :
       users =
         [u \in Users |->
            IF u = "u1"
            THEN UserDoc([FullSettings(2) EXCEPT !.optimalStartHour = 0],
                         Vehicle("vin1", FALSE, 50))
            ELSE UserDoc(FullSettings(1),
                         Vehicle(IF shared THEN "vin1" ELSE "vin2", FALSE, 50))]
  /\ priceDoc = FlatDay
  /\ fanouts = {}
  /\ handlers = {}
  /\ response = 0
  /\ parsedData = NoRun
  /\ req = NoRequest
  /\ result = NoResult
  /\ requests = {}
  /\ tally = [u \in Users |-> NoTally]
  /\ writes = MaxWrites - 2

NextRequests ==
  \/ \E vin \in {"vin1", "vin2"}, data \in PlugEvents :
       telemetryWebhookQuery(vin, data)
  \/ \E r \in requests : telemetryWebhookUpdate(r)
  \/ \E h \in handlers : manageChargingLogic(h)
  \/ \E h \in handlers, currentHour \in Hours : decideOnPlugIn(h, currentHour)
  \/ \E h \in handlers, exchanged \in BOOLEAN :
       sendTeslaChargeCommand(h, exchanged)

SpecRequests == InitRequests /\ [][NextRequests]_vars

\* C35: a telemetry event for VIN v writes at most one user document, one
\* whose vehicle.vin is v, and in it the vehicle fields of the event only;
\* the documents of all other users and the price series are unchanged,
\* whatever other telemetry requests run between its query and its update.
C35_OneDocumentOfTheVin ==
  [][/\ (\E vin \in {"vin1", "vin2"}, data \in PlugEvents :
           telemetryWebhookQuery(vin, data))
         => (users' = users /\ priceDoc' = priceDoc)
     /\ \A r \in requests :
          telemetryWebhookUpdate(r)
            => (/\ \A u \in Users \ {r.userId} : users'[u] = users[u]
                /\ users[r.userId].vehicle.vin = r.vin
                /\ users'[r.userId].vehicle.vin = r.vin
                /\ users'[r.userId].settings = users[r.userId].settings
                /\ users'[r.userId].chargeOverride
                     = users[r.userId].chargeOverride
                /\ users'[r.userId].teslaRefreshToken
                     = users[r.userId].teslaRefreshToken
                /\ priceDoc' = priceDoc)]_vars

\* The request for vin2 that was received first is waiting for its update
\* while the request for vin1, received after it, has written the level 15
\* to the document of u1; the document of u2 is as it was.
C35_Witness ==
  /\ \E r \in requests : r.vin = "vin2" /\ r.id = MaxWrites - 2
  /\ users["u1"].vehicle.batteryLevel = 15
  /\ users["u2"].vehicle = Vehicle("vin2", FALSE, 50)

\* Both requests have written: each document has the level of its own
\* event.
C35_WitnessBoth ==
  /\ requests = {} /\ writes = MaxWrites
  /\ users["u1"].vehicle.vin = "vin1" /\ users["u1"].vehicle.batteryLevel = 15
  /\ users["u2"].vehicle.vin = "vin2" /\ users["u2"].vehicle.batteryLevel = 90

\* C24: every dispatch performs its own credential exchange, so that the
\* exchanges of a user are as many as the dispatches that have passed the
\* exchange; a request to the command endpoint is never sent without a
\* successful exchange, and no user document has a field for an access
\* credential.
C24_ExchangePerDispatch ==
  \A u \in Users :
    /\ tally[u].exchanges + Cardinality(AwaitingToken(u)) = tally[u].dispatches
    /\ tally[u].posted <= tally[u].exchanges - tally[u].exchangeFailed
    /\ DOMAIN users[u] \subseteq
         {"settings", "vehicle", "teslaRefreshToken", "chargeOverride",
          "exists"}

\* Two decision cycles of u1, a plug-in and an override, have each made
\* their exchange.
C24_Witness ==
  /\ tally["u1"].plugEdges = 1 /\ tally["u1"].overrideAsserts = 1
  /\ tally["u1"].dispatches = 2
  /\ tally["u1"].exchanges = 2
  /\ tally["u1"].exchangeFailed = 0

\* C25: every successful credential exchange of a dispatch is followed by
\* the request of the action, charge_start or charge_stop, to the command
\* endpoint of the vehicle.
C25_ActionIssued ==
  \A u \in Users :
    tally[u].posted = tally[u].exchanges - tally[u].exchangeFailed

\* C34: in the handling of an override assertion the flag is written back
\* only after the dispatch of START was attempted and has ended: the
\* invocation that writes the flag has called sendTeslaChargeCommand with
\* START and the call has returned.
C34_DispatchBeforeClear ==
  [][\A h \in handlers :
       clearOverride(h)
         => /\ h.command = "START"
            /\ h.outcome \in {"charge_start", "ExchangeFailed"}
            /\ tally[h.user].exchanges >= 1]_vars

\* C37: the commit of the fan-out changes the field
\* settings.optimalStartHour of a user document and nothing else: the
\* vehicle record, chargeOverride, the refresh token and the other settings
\* are those of the document at the time of the commit, so that telemetry
\* stored after the fan-out has read the users is kept.
C37_OnlyStartHourWritten ==
  [][\A f \in fanouts :
       calculateOptimalWindowCommit(f)
         => \A u \in Users :
              /\ users'[u].vehicle = users[u].vehicle
              /\ users'[u].chargeOverride = users[u].chargeOverride
              /\ users'[u].teslaRefreshToken = users[u].teslaRefreshToken
              /\ users'[u].exists = users[u].exists
              /\ users'[u].settings.present = users[u].settings.present
              /\ users[u].settings.present
                   => /\ users'[u].settings.chargingDuration
                          = users[u].settings.chargingDuration
                      /\ users'[u].settings.emergencyThreshold
                          = users[u].settings.emergencyThreshold
                      /\ users'[u].settings.targetBattery
                          = users[u].settings.targetBattery]_vars

\* The update event of a commit that wrote the start hour 1 over 0: the
\* battery level 15 that telemetry stored while the fan-out was running is
\* in the document before and after the commit.
C37_Witness ==
  \E h \in handlers :
    /\ h.cause.op = "calculateOptimalWindow" /\ h.user = "u1"
    /\ h.before.settings.optimalStartHour = 0
    /\ h.after.settings.optimalStartHour = 1
    /\ h.before.vehicle.batteryLevel = 15
    /\ h.after.vehicle.batteryLevel = 15

\* C38: manageChargingLogic handles every update of a user document
\* without an unhandled error, also of a document that has no vehicle
\* record or no settings record, and dispatches a command for an override
\* assertion or a plug-in transition only.
C38_NoUnhandledError ==
  \A u \in Users :
    /\ tally[u].unhandled = 0
    /\ tally[u].dispatches <= tally[u].plugEdges + tally[u].overrideAsserts

====
